---------------------------- MODULE Spec2Model ----------------------------
(***************************************************************************)
(* Gate library, adder chain and ALU of computer_sys_lab.                  *)
(*                                                                         *)
(* A bit is a BOOLEAN.  A bit vector (&[bool], Vec<bool>) is a sequence of *)
(* BOOLEAN, least significant bit first: the Rust index i is position i+1. *)
(*                                                                         *)
(* Two call harnesses are specified.  SpecAdder calls full_adder,          *)
(* n_bit_adder or incrementer on drawn arguments and runs the adder loop   *)
(* one iteration per step.  SpecAlu calls alu or alu16 on drawn arguments  *)
(* and runs the ALU pipeline one stage per step.                           *)
(***************************************************************************)
EXTENDS Integers, Sequences, FiniteSets

VARIABLES
    entry,        \* the function the harness calls
    pc,           \* position inside the call
    a, b,         \* n_bit_adder: the two operands (incrementer: a, [true])
    carry_in,     \* full_adder: the third input bit
    i,            \* n_bit_adder: the loop index
    sum,          \* n_bit_adder: the sum bits pushed so far
    carry,        \* n_bit_adder: the running carry
    x, y,         \* alu: the two data inputs
    zx, nx, zy, ny, f, no,            \* alu: the six control bits
    x_processed, y_processed,         \* alu: the conditioned inputs
    out,          \* alu: the output vector under construction
    is_zero,      \* alu: the zr flag
    is_negative,  \* alu: the ng flag
    ret           \* the value the called function returned

adderVars == <<a, b, carry_in, i, sum, carry>>
aluArgs   == <<x, y, zx, nx, zy, ny, f, no>>
aluVars   == <<x_processed, y_processed, out, is_zero, is_negative>>
vars      == <<entry, pc, adderVars, aluArgs, aluVars, ret>>

(***************************************************************************)
(* Bounds of the drawn arguments.                                          *)
(***************************************************************************)
MaxLen   == 4    \* longest operand drawn for n_bit_adder and incrementer
MaxWidth == 3    \* longest operand drawn for alu
SeedLen  == 2    \* free low bits of an operand drawn for alu16

\* The width of alu16's operands and result.
Width16 == 16

BitVecs(n) == UNION {[1..k -> BOOLEAN] : k \in 0..n}

\* 16-bit operands: SeedLen free low bits, the rest all equal to one free bit.
Operands16 ==
    {[k \in 1..Width16 |-> IF k <= SeedLen THEN s[k] ELSE h] :
        s \in [1..SeedLen -> BOOLEAN], h \in BOOLEAN}

Max(m, n) == IF m >= n THEN m ELSE n

(***************************************************************************)
(* Gate library (lib.rs).                                                  *)
(***************************************************************************)
nand(p, q) == ~(p /\ q)

not(p) == nand(p, p)

and(p, q) ==
    LET n == nand(p, q)
    IN  nand(n, n)

or(p, q) ==
    LET na == nand(p, p)
        nb == nand(q, q)
    IN  nand(na, nb)

xor(p, q) ==
    LET t1 == nand(p, q)
        t2 == nand(p, t1)
        t3 == nand(q, t1)
    IN  nand(t2, t3)

(***************************************************************************)
(* Adder chain (adder.rs).  A pair (sum, carry) is a 2-tuple.              *)
(***************************************************************************)
half_adder(p, q) ==
    LET s == xor(p, q)
        c == and(p, q)
    IN  <<s, c>>

\* Faulty variant: the two half-adder carries joined by AND instead of OR.
full_adder_and_carries(p, q, cin) ==
    LET h1 == half_adder(p, q)
        h2 == half_adder(h1[1], cin)
        carry_out == and(h1[2], h2[2])
    IN  <<h2[1], carry_out>>

\* Faulty variant: the second half adder fed a instead of sum1.
full_adder_skip_sum1(p, q, cin) ==
    LET h1 == half_adder(p, q)
        h2 == half_adder(p, cin)
        carry_out == or(h1[2], h2[2])
    IN  <<h2[1], carry_out>>

full_adder(p, q, cin) ==
    LET h1 == half_adder(p, q)
        h2 == half_adder(h1[1], cin)
        carry_out == or(h1[2], h2[2])
    IN  <<h2[1], carry_out>>

\* let bit_a = if i < a.len() { a[i] } else { false };
bit_at(v, k) == IF k < Len(v) THEN v[k + 1] ELSE FALSE

\* Faulty variant: carry = bit_carry left out, so the carry stays as it was.
adder_body_stale_carry(va, vb, k, s, c) ==
    LET bit_a == bit_at(va, k)
        bit_b == bit_at(vb, k)
        r     == full_adder(bit_a, bit_b, c)
    IN  <<Append(s, r[1]), c>>

\* Faulty variant: every position added with carry-in 0 (no rippling).
adder_body_no_carry_in(va, vb, k, s, c) ==
    LET bit_a == bit_at(va, k)
        bit_b == bit_at(vb, k)
        r     == full_adder(bit_a, bit_b, FALSE)
    IN  <<Append(s, r[1]), r[2]>>

\* One iteration of the loop of n_bit_adder at index k: the new (sum, carry).
adder_body(va, vb, k, s, c) ==
    LET bit_a == bit_at(va, k)
        bit_b == bit_at(vb, k)
        r     == full_adder(bit_a, bit_b, c)
    IN  <<Append(s, r[1]), r[2]>>

RECURSIVE adder_loop(_, _, _, _, _, _)
adder_loop(va, vb, n, k, s, c) ==
    IF k < n
    THEN LET r == adder_body(va, vb, k, s, c)
         IN  adder_loop(va, vb, n, k + 1, r[1], r[2])
    ELSE <<s, c>>

n_bit_adder(va, vb) ==
    LET n == Max(Len(va), Len(vb))
    IN  adder_loop(va, vb, n, 0, <<>>, FALSE)

\* let increment = [true];
increment == <<TRUE>>

(***************************************************************************)
(* The adder harness.                                                      *)
(***************************************************************************)
NoRet == <<"none">>

AluIdle ==
    /\ x = <<>> /\ y = <<>>
    /\ zx = FALSE /\ nx = FALSE /\ zy = FALSE /\ ny = FALSE
    /\ f = FALSE /\ no = FALSE
    /\ x_processed = <<>> /\ y_processed = <<>> /\ out = <<>>
    /\ is_zero = FALSE /\ is_negative = FALSE

InitAdder ==
    /\ entry \in {"full_adder", "n_bit_adder", "incrementer"}
    /\ pc = "call"
    /\ \/ /\ entry = "full_adder"
          /\ a \in [1..1 -> BOOLEAN] /\ b \in [1..1 -> BOOLEAN]
          /\ carry_in \in BOOLEAN
       \/ /\ entry = "n_bit_adder"
          /\ a \in BitVecs(MaxLen) /\ b \in BitVecs(MaxLen)
          /\ carry_in = FALSE
       \/ /\ entry = "incrementer"
          /\ a \in BitVecs(MaxLen) /\ b = <<>>
          /\ carry_in = FALSE
    /\ i = 0 /\ sum = <<>> /\ carry = FALSE
    /\ ret = NoRet
    /\ AluIdle

\* full_adder(a, b, carry_in)
FullAdder ==
    /\ entry = "full_adder" /\ pc = "call"
    /\ ret' = full_adder(a[1], b[1], carry_in)
    /\ pc' = "done"
    /\ UNCHANGED <<entry, adderVars, aluArgs, aluVars>>

\* incrementer(a): n_bit_adder(a, &increment)
Incrementer ==
    /\ entry = "incrementer" /\ pc = "call"
    /\ b' = increment
    /\ i' = 0 /\ sum' = <<>> /\ carry' = FALSE
    /\ pc' = "loop"
    /\ UNCHANGED <<entry, a, carry_in, aluArgs, aluVars, ret>>

\* n_bit_adder(a, b): entry, sum = Vec::with_capacity(n), carry = false
NBitAdder ==
    /\ entry = "n_bit_adder" /\ pc = "call"
    /\ i' = 0 /\ sum' = <<>> /\ carry' = FALSE
    /\ pc' = "loop"
    /\ UNCHANGED <<entry, a, b, carry_in, aluArgs, aluVars, ret>>

\* one iteration of for i in 0..n
AdderStep ==
    /\ pc = "loop"
    /\ i < Max(Len(a), Len(b))
    /\ LET r == adder_body(a, b, i, sum, carry)
       IN  sum' = r[1] /\ carry' = r[2]
    /\ i' = i + 1
    /\ UNCHANGED <<entry, pc, a, b, carry_in, aluArgs, aluVars, ret>>

\* the loop is over: (sum, carry)
AdderReturn ==
    /\ pc = "loop"
    /\ ~(i < Max(Len(a), Len(b)))
    /\ ret' = <<sum, carry>>
    /\ pc' = "done"
    /\ UNCHANGED <<entry, adderVars, aluArgs, aluVars>>

NextAdder ==
    \/ FullAdder
    \/ Incrementer
    \/ NBitAdder
    \/ AdderStep
    \/ AdderReturn

SpecAdder == InitAdder /\ [][NextAdder]_vars

(***************************************************************************)
(* ALU (alu.rs).                                                           *)
(***************************************************************************)
\* Faulty variant: nx applied before zx (negate, then zero).
x_condition_negate_first(vx, n, z, neg) ==
    [k \in 1..n |->
        LET x_bit == IF (k - 1) >= Len(vx) THEN FALSE ELSE vx[k]
            x_neg == IF neg THEN not(x_bit) ELSE x_bit
        IN  IF z THEN FALSE ELSE x_neg]

\* Step 1 & 2: x_processed, for i in 0..n
x_condition(vx, n, z, neg) ==
    [k \in 1..n |->
        LET x_bit == IF (k - 1) >= Len(vx) \/ z THEN FALSE ELSE vx[k]
        IN  IF neg THEN not(x_bit) ELSE x_bit]

\* Faulty variant: ny applied before zy (negate, then zero).
y_condition_negate_first(vy, n, z, neg) ==
    [k \in 1..n |->
        LET y_bit == IF (k - 1) >= Len(vy) THEN FALSE ELSE vy[k]
            y_neg == IF neg THEN not(y_bit) ELSE y_bit
        IN  IF z THEN FALSE ELSE y_neg]

\* Step 3 & 4: y_processed, for i in 0..n
y_condition(vy, n, z, neg) ==
    [k \in 1..n |->
        LET y_bit == IF (k - 1) >= Len(vy) \/ z THEN FALSE ELSE vy[k]
        IN  IF neg THEN not(y_bit) ELSE y_bit]

\* Faulty variant: the f = 0 branch computes OR instead of AND.
function_select_or(xp, yp, n, fn) ==
    IF fn
    THEN LET r == n_bit_adder(xp, yp)
             s == r[1]
         IN  [k \in 1..n |-> IF (k - 1) < Len(s) THEN s[k] ELSE FALSE]
    ELSE [k \in 1..n |-> or(xp[k], yp[k])]

\* Step 5: f = 1 the adder's sum copied into n bits, f = 0 the bitwise AND
function_select(xp, yp, n, fn) ==
    IF fn
    THEN LET r == n_bit_adder(xp, yp)
             s == r[1]
         IN  [k \in 1..n |-> IF (k - 1) < Len(s) THEN s[k] ELSE FALSE]
    ELSE [k \in 1..n |-> and(xp[k], yp[k])]

\* Step 6: if no, every bit of out inverted
negate_output(o, n, neg) ==
    IF neg THEN [k \in 1..n |-> not(o[k])] ELSE o

\* Step 7: is_zero stays true unless some out[i] is set
zero_flag(o, n) == ~(\E k \in 1..n : o[k])

\* Faulty variant: the sign read at index 0, as if the vector were MSB first.
negative_flag_lsb(o, n) == IF n > 0 THEN o[1] ELSE FALSE

\* Step 8: the most significant bit, false for n = 0
negative_flag(o, n) == IF n > 0 THEN o[n] ELSE FALSE

\* Faulty variant: the copy loop stops one index short (for i in 0..15).
to_array15(out_vec) ==
    [k \in 1..Width16 |->
        IF k < Width16 /\ (k - 1) < Len(out_vec) THEN out_vec[k] ELSE FALSE]

\* alu16: the Vec<bool> copied into [false; 16]
to_array16(out_vec) ==
    [k \in 1..Width16 |-> IF (k - 1) < Len(out_vec) THEN out_vec[k] ELSE FALSE]

(***************************************************************************)
(* The ALU harness.                                                        *)
(***************************************************************************)
AdderIdle ==
    /\ a = <<>> /\ b = <<>> /\ carry_in = FALSE
    /\ i = 0 /\ sum = <<>> /\ carry = FALSE

InitAlu ==
    /\ entry \in {"alu", "alu16"}
    /\ pc = "call"
    /\ \/ /\ entry = "alu"
          /\ x \in BitVecs(MaxWidth) /\ y \in BitVecs(MaxWidth)
       \/ /\ entry = "alu16"
          /\ x \in Operands16 /\ y \in Operands16
    /\ zx \in BOOLEAN /\ nx \in BOOLEAN
    /\ zy \in BOOLEAN /\ ny \in BOOLEAN
    /\ f \in BOOLEAN /\ no \in BOOLEAN
    /\ x_processed = <<>> /\ y_processed = <<>> /\ out = <<>>
    /\ is_zero = FALSE /\ is_negative = FALSE
    /\ ret = NoRet
    /\ AdderIdle

\* let n = x.len().max(y.len());
Width == Max(Len(x), Len(y))

XCondition ==
    /\ pc = "call"
    /\ x_processed' = x_condition(x, Width, zx, nx)
    /\ pc' = "y_condition"
    /\ UNCHANGED <<entry, adderVars, aluArgs, y_processed, out,
                   is_zero, is_negative, ret>>

YCondition ==
    /\ pc = "y_condition"
    /\ y_processed' = y_condition(y, Width, zy, ny)
    /\ pc' = "function"
    /\ UNCHANGED <<entry, adderVars, aluArgs, x_processed, out,
                   is_zero, is_negative, ret>>

FunctionSelect ==
    /\ pc = "function"
    /\ out' = function_select(x_processed, y_processed, Width, f)
    /\ pc' = "negate"
    /\ UNCHANGED <<entry, adderVars, aluArgs, x_processed, y_processed,
                   is_zero, is_negative, ret>>

NegateOutput ==
    /\ pc = "negate"
    /\ out' = negate_output(out, Width, no)
    /\ pc' = "flags"
    /\ UNCHANGED <<entry, adderVars, aluArgs, x_processed, y_processed,
                   is_zero, is_negative, ret>>

\* Steps 7 and 8, and the return of (out, is_zero, is_negative)
Flags ==
    /\ pc = "flags"
    /\ is_zero' = zero_flag(out, Width)
    /\ is_negative' = negative_flag(out, Width)
    /\ IF entry = "alu"
       THEN /\ ret' = <<out, is_zero', is_negative'>>
            /\ pc' = "done"
       ELSE /\ ret' = ret
            /\ pc' = "alu16"
    /\ UNCHANGED <<entry, adderVars, aluArgs, x_processed, y_processed, out>>

\* alu16 after its call of alu: (out, zr, ng)
Alu16 ==
    /\ entry = "alu16" /\ pc = "alu16"
    /\ ret' = <<to_array16(out), is_zero, is_negative>>
    /\ pc' = "done"
    /\ UNCHANGED <<entry, adderVars, aluArgs, aluVars>>

NextAlu ==
    \/ XCondition
    \/ YCondition
    \/ FunctionSelect
    \/ NegateOutput
    \/ Flags
    \/ Alu16

SpecAlu == InitAlu /\ [][NextAlu]_vars

(***************************************************************************)
(* Arithmetic reading of bits and bit vectors, used to state properties.   *)
(***************************************************************************)
Bit(p) == IF p THEN 1 ELSE 0

RECURSIVE ValueOfLow(_, _)
ValueOfLow(v, n) ==
    IF n = 0 THEN 0 ELSE ValueOfLow(v, n - 1) + Bit(v[n]) * 2^(n - 1)

\* The unsigned value of an LSB-first bit vector.
Value(v) == ValueOfLow(v, Len(v))

\* The n low bits of the natural number m, LSB first.
Bits(m, n) == [k \in 1..n |-> (m \div 2^(k - 1)) % 2 = 1]

Zeros(n) == [k \in 1..n |-> FALSE]
Ones(n)  == [k \in 1..n |-> TRUE]
AllOnes(v) == \A k \in 1..Len(v) : v[k]

(***************************************************************************)
(* Properties of the adder chain, checked under SpecAdder.                 *)
(***************************************************************************)
AdderReturned == entry \in {"n_bit_adder", "incrementer"} /\ pc = "done"

\* C1: n_bit_adder(a, b) returns (sum, carry) with len(sum) = n =
\* max(len(a), len(b)) and value(sum) + carry * 2^n = value(a) + value(b),
\* the shorter operand read as zero-extended; n_bit_adder([], []) is
\* ([], false) and n_bit_adder([1,0,1], [1,1]) is ([0,0,0], true).
C1_AdderContract ==
    AdderReturned =>
        LET n == Max(Len(a), Len(b))
        IN  /\ Len(ret[1]) = n
            /\ Value(ret[1]) + Bit(ret[2]) * 2^n = Value(a) + Value(b)
            /\ (a = <<>> /\ b = <<>>) => ret = << <<>>, FALSE >>
            /\ (a = <<TRUE, FALSE, TRUE>> /\ b = <<TRUE, TRUE>>)
                   => ret = << <<FALSE, FALSE, FALSE>>, TRUE >>

C1_Witness ==
    /\ entry = "n_bit_adder" /\ pc = "done"
    /\ a = <<TRUE, FALSE, TRUE>> /\ b = <<TRUE, TRUE>>
    /\ ret = << <<FALSE, FALSE, FALSE>>, TRUE >>

\* C5: for all 8 triples (a, b, carry_in), full_adder returns
\* (sum, carry_out) with sum + 2 * carry_out = a + b + carry_in.
C5_FullAdder ==
    (entry = "full_adder" /\ pc = "done") =>
        Bit(ret[1]) + 2 * Bit(ret[2]) = Bit(a[1]) + Bit(b[1]) + Bit(carry_in)

C5_Witness ==
    /\ entry = "full_adder" /\ pc = "done"
    /\ a[1] /\ b[1] /\ carry_in
    /\ ret = <<TRUE, TRUE>>

\* C6: for a of any length n, n = 0 included, incrementer(a) returns
\* overflow = true exactly when every bit of a is 1, and for an all-ones a
\* the result is the all-zeros vector of length n.
C6_Incrementer ==
    (entry = "incrementer" /\ pc = "done") =>
        /\ ret[2] = AllOnes(a)
        /\ AllOnes(a) => ret[1] = Zeros(Len(a))

\* What incrementer does on the empty vector: the adder's width is
\* max(len(a), len(increment)) = 1, so the result is ([1], false).
IncrementerOfEmpty ==
    (entry = "incrementer" /\ pc = "done" /\ a = <<>>) =>
        ret = << <<TRUE>>, FALSE >>

\* On every non-empty vector the overflow and all-ones statements hold.
IncrementerNonEmpty ==
    (entry = "incrementer" /\ pc = "done" /\ Len(a) >= 1) =>
        /\ Len(ret[1]) = Len(a)
        /\ ret[2] = AllOnes(a)
        /\ AllOnes(a) => ret[1] = Zeros(Len(a))

\* C8: for a and b of equal length, n_bit_adder(a, b) and
\* n_bit_adder(b, a) return the same sum vector and the same carry.
C8_Commutative ==
    (entry = "n_bit_adder" /\ pc = "done" /\ Len(a) = Len(b)) =>
        ret = n_bit_adder(b, a)

C8_Witness ==
    /\ entry = "n_bit_adder" /\ pc = "done"
    /\ a = <<TRUE, FALSE>> /\ b = <<TRUE, TRUE>>
    /\ ret = n_bit_adder(b, a)
    /\ ret[2]

\* C10: the carry starts at 0, positions are processed in index order, and
\* after k <= n positions the k sum bits and the running carry satisfy
\* value(sum[0..k]) + carry * 2^k = (value(a) mod 2^k) + (value(b) mod 2^k).
C10_RippleInvariant ==
    (pc = "loop") =>
        /\ i <= Max(Len(a), Len(b))
        /\ Len(sum) = i
        /\ i = 0 => carry = FALSE
        /\ Value(sum) + Bit(carry) * 2^i
               = (Value(a) % 2^i) + (Value(b) % 2^i)

C10_Witness ==
    /\ entry = "n_bit_adder" /\ pc = "loop"
    /\ 1 < i /\ i < Max(Len(a), Len(b))
    /\ Len(a) # Len(b)
    /\ carry /\ sum[1]

(***************************************************************************)
(* Properties of the ALU, checked under SpecAlu.                           *)
(***************************************************************************)
\* alu has returned (to the harness, or to alu16)
AluReturned ==
    \/ entry = "alu" /\ pc = "done"
    \/ entry = "alu16" /\ pc \in {"alu16", "done"}

\* C2: the out returned by alu has length n = max(len(x), len(y)) and is,
\* for f set, the low n bits of x_processed + y_processed and, for f clear,
\* the bitwise AND of x_processed and y_processed, every bit inverted
\* afterwards iff no is set.
C2_AluOut ==
    AluReturned =>
        LET n   == Max(Len(x), Len(y))
            raw == IF f
                   THEN Bits((Value(x_processed) + Value(y_processed)) % 2^n, n)
                   ELSE [k \in 1..n |-> x_processed[k] /\ y_processed[k]]
        IN  /\ Len(out) = n
            /\ out = [k \in 1..n |-> raw[k] # no]
            /\ entry = "alu" => ret[1] = out

C2_Witness ==
    /\ entry = "alu" /\ pc = "done"
    /\ Len(x) = 3 /\ Len(y) = 2
    /\ f /\ no /\ ~zx /\ ~zy
    /\ Value(x_processed) + Value(y_processed) >= 2^3
    /\ Len(ret[1]) = 3

\* C3: x_processed[i] = nx XOR (not zx AND i < len(x) AND x[i]) and
\* y_processed[i] = ny XOR (not zy AND i < len(y) AND y[i]) for every i in
\* 0..n; with zx and nx set x_processed is all ones over the width n.
C3_Conditioning ==
    LET n == Max(Len(x), Len(y))
    IN  /\ pc \notin {"call"} =>
            /\ x_processed = [k \in 1..n |-> nx # (~zx /\ k <= Len(x) /\ x[k])]
            /\ (zx /\ nx) => x_processed = Ones(n)
        /\ pc \notin {"call", "y_condition"} =>
            /\ y_processed = [k \in 1..n |-> ny # (~zy /\ k <= Len(y) /\ y[k])]
            /\ (zy /\ ny) => y_processed = Ones(n)

C3_Witness ==
    /\ entry = "alu" /\ pc = "function"
    /\ zx /\ nx /\ Len(x) = 1 /\ x[1] /\ Len(y) = 3
    /\ x_processed = Ones(3)
    /\ ~zy /\ ny /\ y = <<TRUE, FALSE, TRUE>>
    /\ y_processed = <<FALSE, TRUE, FALSE>>

Preset(vzx, vnx, vzy, vny, vf, vno) ==
    zx = vzx /\ nx = vnx /\ zy = vzy /\ ny = vny /\ f = vf /\ no = vno

\* C7: for operands of equal width n >= 2 (n = 16 through alu16),
\* (1,0,1,0,1,0) yields out all-zero, zr, not ng; (1,1,1,1,1,1) yields out
\* with only the LSB set, not zr, not ng; (1,1,1,0,1,0) yields out all-ones,
\* not zr, ng.
C7_Presets ==
    (pc = "done" /\ Len(x) = Len(y) /\ Len(x) >= 2) =>
        LET n == Len(x)
        IN  /\ Preset(TRUE, FALSE, TRUE, FALSE, TRUE, FALSE)
                   => ret = <<Zeros(n), TRUE, FALSE>>
            /\ Preset(TRUE, TRUE, TRUE, TRUE, TRUE, TRUE)
                   => ret = <<[k \in 1..n |-> k = 1], FALSE, FALSE>>
            /\ Preset(TRUE, TRUE, TRUE, FALSE, TRUE, FALSE)
                   => ret = <<Ones(n), FALSE, TRUE>>

C7_Witness ==
    /\ entry = "alu16" /\ pc = "done"
    /\ Preset(TRUE, TRUE, TRUE, TRUE, TRUE, TRUE)
    /\ x[1] /\ ~y[1]
    /\ ret = <<[k \in 1..Width16 |-> k = 1], FALSE, FALSE>>

\* C9: alu16's out has exactly 16 bits, bit i being bit i of alu's out
\* where alu's out has one and 0 elsewhere, bits of alu's out at index 16 or
\* above are dropped, and zr and ng are those alu returned.
C9_Alu16 ==
    (entry = "alu16" /\ pc = "done") =>
        /\ Len(ret[1]) = Width16
        /\ \A k \in 1..Width16 :
               ret[1][k] = (IF k <= Len(out) THEN out[k] ELSE FALSE)
        /\ ret[2] = is_zero
        /\ ret[3] = is_negative

C9_Witness ==
    /\ entry = "alu16" /\ pc = "done"
    /\ Len(out) = Width16
    /\ out[Width16] /\ ret[1][Width16] /\ ~ret[1][1]
    /\ ret[3]

=============================================================================
